---- MODULE Spec2Model ----
(***************************************************************************)
(* Fault-tolerant access layer of chorikim/neon:                            *)
(*   - proxy/src/redis/kv_ops.rs: RedisKVClient::query, the key-value      *)
(*     client with a single bounded retry driven by redis::RetryMethod;    *)
(*   - pageserver/.../import_pgdata/importbucket_client.rs:                *)
(*     RemoteStorageWrapper, the object-store facade built on              *)
(*     download_retry_forever.                                             *)
(*     download_retry_forever, and ControlFile, the validated control     *)
(*     file.                                                               *)
(* The components share no state; SpecKV, SpecOS and SpecCF are their      *)
(* specifications over one set of variables.                               *)
(***************************************************************************)
EXTENDS Integers, Sequences, FiniteSets, TLC

\* ---------------------------------------------------------------- bounds
\* distinct reply values / error codes the key-value backend can produce
MaxVal == 2

\* longest object held by the store, in bytes
MaxObjLen == 2
\* largest byte offset a caller passes to get_range
MaxOff == 3
\* the attempt and failure counters of one retry loop saturate here
MaxCount == 3
\* largest checkpoint position found in a control file
MaxLsn == 17
\* how many of the latest query calls the record of past calls keeps
MaxCalls == 2

\* ------------------------------------------------------------- variables
VARIABLES
    kvPc,      \* position inside RedisKVClient::query
    client,    \* connection state of ConnectionWithCredentialsProvider
    e,         \* the `e` bound at kv_ops.rs:51-54 (first attempt's error)
    kvTrace,   \* what the current query call has done so far, in order
    kvRet,     \* what query returned to its caller
    kvHistory, \* Ok / Err of the latest completed query calls, oldest first
    osPc,      \* position inside the running RemoteStorageWrapper call
    call,      \* the running call: method, path and byte range
    object,    \* what the store holds at the call's path
    listing,   \* what the store lists under the call's directory
    cancel,    \* RemoteStorageWrapper.cancel, the CancellationToken
    attempts,  \* invocations of the wrapped operation in this call
    failures,  \* transient failures of the wrapped operation in this call
    lastOut,   \* outcome of the latest invocation of the wrapped operation
    res,       \* `res`, the value of download_retry_forever(..).await
    osRet,     \* what the facade method returned to its caller
    cancelAtStart, \* whether cancel was already set when the call began
    controlFile, \* the ControlFile value held by the import, if any
    cfRet      \* outcome of the latest ControlFile operation

kvVars == <<kvPc, client, e, kvTrace, kvRet, kvHistory>>

osVars == <<osPc, call, object, listing, cancel, attempts, failures,
            lastOut, res, osRet, cancelAtStart>>

cfVars == <<controlFile, cfRet>>

vars == <<kvPc, client, e, kvTrace, kvRet, kvHistory, osPc, call, object, listing,
          cancel, attempts, failures, lastOut, res, osRet, cancelAtStart,
          controlFile, cfRet>>

\* ======================================================================
\*  Key-value client (proxy/src/redis/kv_ops.rs)
\* ======================================================================

\* redis::RetryMethod, the classification returned by RedisError::retry_method
RetryMethods ==
    {"Reconnect", "RetryImmediately", "WaitAndRetry",
     "NoRetry", "AskRedirect", "MovedRedirect"}

\* RedisResult<T> / anyhow::Result<T> values
RedisOk(v) == [tag |-> "Ok", val |-> v, retry |-> "None"]
RedisErr(c, m) == [tag |-> "Err", val |-> c, retry |-> m]
NoResult == [tag |-> "None", val |-> 0, retry |-> "None"]
\* the anyhow error of a failed ConnectionWithCredentialsProvider::connect
ConnectErr == [tag |-> "Err", val |-> 0, retry |-> "ConnectFailed"]

RedisErrors == {RedisErr(c, m) : c \in 1..MaxVal, m \in RetryMethods}
RedisOks == {RedisOk(v) : v \in 1..MaxVal}

\* Outcomes of q.query(&mut self.client): without an established connection
\* the command cannot be executed, so only failures are possible.
QueryOutcomes(c) ==
    IF c = "Connected" THEN RedisOks \cup RedisErrors ELSE RedisErrors

Ev(op, out) == [op |-> op, out |-> out]

\* RedisKVClient::new: stores the provider, performs no connect.
KvInit ==
    /\ kvPc = "idle"
    /\ client = "Disconnected"
    /\ e = NoResult
    /\ kvTrace = <<>>
    /\ kvRet = NoResult
    /\ kvHistory = <<>>

\* a caller enters query(q)
QueryCall ==
    /\ kvPc = "idle"
    /\ kvPc' = "first"
    /\ e' = NoResult
    /\ kvTrace' = <<>>
    /\ kvRet' = NoResult
    /\ UNCHANGED <<client, kvHistory, osVars, cfVars>>

\* kv_ops.rs:51-54: first execution; Ok returns, Err is bound to e
FirstAttempt ==
    /\ kvPc = "first"
    /\ \E out \in QueryOutcomes(client) :
          /\ kvTrace' = Append(kvTrace, Ev("attempt", out))
          /\ IF out.tag = "Ok"
             THEN /\ kvRet' = out
                  /\ kvPc' = "done"
                  /\ e' = e
             ELSE /\ e' = out
                  /\ kvPc' = "classify"
                  /\ kvRet' = kvRet
    /\ UNCHANGED <<client, kvHistory, osVars, cfVars>>

\* kv_ops.rs:57-68: where the match on e.retry_method() continues
RetryArmMissingConnect(m) ==
    CASE m = "Reconnect" -> "second"
      [] m = "RetryImmediately" -> "second"
      [] m = "WaitAndRetry" -> "sleep"
      [] OTHER -> "fatal"

\* a match whose fallback arm also retries
RetryArmRetriesFatal(m) ==
    CASE m = "Reconnect" -> "connect"
      [] m = "RetryImmediately" -> "second"
      [] m = "WaitAndRetry" -> "sleep"
      [] OTHER -> "second"

\* a match whose WaitAndRetry arm does not sleep
RetryArmNoWait(m) ==
    CASE m = "Reconnect" -> "connect"
      [] m = "RetryImmediately" -> "second"
      [] m = "WaitAndRetry" -> "second"
      [] OTHER -> "fatal"

RetryArm(m) ==
    CASE m = "Reconnect" -> "connect"
      [] m = "RetryImmediately" -> "second"
      [] m = "WaitAndRetry" -> "sleep"
      [] OTHER -> "fatal"

\* kv_ops.rs:56-68: classify the first failure
Classify ==
    /\ kvPc = "classify"
    /\ IF RetryArm(e.retry) = "fatal"
       THEN /\ kvRet' = e
            /\ kvPc' = "done"
       ELSE /\ kvPc' = RetryArm(e.retry)
            /\ kvRet' = kvRet
    /\ UNCHANGED <<client, e, kvTrace, kvHistory, osVars, cfVars>>

\* ConnectionWithCredentialsProvider::connect as seen by the client: a
\* connection is established or there is none
connect(ok) == IF ok THEN "Connected" ELSE "Disconnected"

\* kv_ops.rs:35-41: try_connect called by the owner of the client
ConnectCall ==
    /\ kvPc = "idle"
    /\ \E ok \in BOOLEAN : client' = connect(ok)
    /\ UNCHANGED <<kvPc, e, kvTrace, kvRet, kvHistory, osVars, cfVars>>

\* a reconnect whose failure is dropped instead of propagated by `?`
TryConnectIgnoresFailure ==
    /\ kvPc = "connect"
    /\ \E ok \in BOOLEAN :
          /\ client' = connect(ok)
          /\ kvTrace' = Append(kvTrace, Ev("connect", IF ok THEN RedisOk(0) ELSE ConnectErr))
          /\ kvPc' = "second"
          /\ kvRet' = kvRet
    /\ UNCHANGED <<e, kvHistory, osVars, cfVars>>

\* kv_ops.rs:60: self.try_connect().await? inside query
TryConnect ==
    /\ kvPc = "connect"
    /\ \E ok \in BOOLEAN :
          /\ client' = connect(ok)
          /\ IF ok
             THEN /\ kvTrace' = Append(kvTrace, Ev("connect", RedisOk(0)))
                  /\ kvPc' = "second"
                  /\ kvRet' = kvRet
             ELSE /\ kvTrace' = Append(kvTrace, Ev("connect", ConnectErr))
                  /\ kvPc' = "done"
                  /\ kvRet' = ConnectErr
    /\ UNCHANGED <<e, kvHistory, osVars, cfVars>>

\* a WaitAndRetry arm that also re-establishes the connection
SleepThenReconnect ==
    /\ kvPc = "sleep"
    /\ kvTrace' = Append(kvTrace, Ev("sleep", RedisOk(0)))
    /\ kvPc' = "second"
    /\ client' = "Connected"
    /\ UNCHANGED <<e, kvRet, kvHistory, osVars, cfVars>>

\* kv_ops.rs:63-66: tokio::time::sleep(100ms)
Sleep ==
    /\ kvPc = "sleep"
    /\ kvTrace' = Append(kvTrace, Ev("sleep", RedisOk(0)))
    /\ kvPc' = "second"
    /\ UNCHANGED <<client, e, kvRet, kvHistory, osVars, cfVars>>

\* a second attempt whose failure is classified again
SecondAttemptReclassify ==
    /\ kvPc = "second"
    /\ \E out \in QueryOutcomes(client) :
          /\ kvTrace' = Append(kvTrace, Ev("attempt", out))
          /\ IF out.tag = "Ok"
             THEN /\ kvRet' = out
                  /\ kvPc' = "done"
                  /\ e' = e
             ELSE /\ e' = out
                  /\ kvPc' = "classify"
                  /\ kvRet' = kvRet
    /\ UNCHANGED <<client, kvHistory, osVars, cfVars>>

\* a second attempt that reconnects once more when it fails with Reconnect
SecondAttemptReconnects ==
    /\ kvPc = "second"
    /\ \E out \in QueryOutcomes(client) :
          /\ kvTrace' = Append(kvTrace, Ev("attempt", out))
          /\ IF out.tag = "Err" /\ out.retry = "Reconnect"
             THEN /\ e' = out
                  /\ kvPc' = "connect"
                  /\ kvRet' = kvRet
             ELSE /\ kvRet' = out
                  /\ kvPc' = "done"
                  /\ e' = e
    /\ UNCHANGED <<client, kvHistory, osVars, cfVars>>

\* kv_ops.rs:70: Ok(q.query(&mut self.client).await?)
SecondAttempt ==
    /\ kvPc = "second"
    /\ \E out \in QueryOutcomes(client) :
          /\ kvTrace' = Append(kvTrace, Ev("attempt", out))
          /\ kvRet' = out
          /\ kvPc' = "done"
    /\ UNCHANGED <<client, e, kvHistory, osVars, cfVars>>

\* the caller takes the result; the client is ready for the next call
QueryReturn ==
    /\ kvPc = "done"
    /\ kvPc' = "idle"
    /\ kvHistory' = IF Len(kvHistory) < MaxCalls
                    THEN Append(kvHistory, kvRet.tag)
                    ELSE Append(Tail(kvHistory), kvRet.tag)
    /\ UNCHANGED <<client, e, kvTrace, kvRet, osVars, cfVars>>

KvNext ==
    \/ ConnectCall
    \/ QueryCall
    \/ FirstAttempt
    \/ Classify
    \/ TryConnect
    \/ Sleep
    \/ SecondAttempt
    \/ QueryReturn

\* ======================================================================
\*  Object-store facade
\*  (pageserver/src/tenant/timeline/import_pgdata/importbucket_client.rs)
\* ======================================================================

Min(a, b) == IF a < b THEN a ELSE b
Bump(n) == Min(n + 1, MaxCount)

\* bytes of the stored objects
Bytes == {"[", "]", "0"}

RECURSIVE SeqsUpTo(_, _)
SeqsUpTo(S, n) ==
    IF n = 0 THEN {<<>>}
    ELSE LET shorter == SeqsUpTo(S, n - 1)
         IN  shorter \cup {Append(q, x) : q \in {r \in shorter : Len(r) = n - 1}, x \in S}

Absent == [present |-> FALSE, bytes |-> <<>>]
Objects == {Absent} \cup {[present |-> TRUE, bytes |-> b] : b \in SeqsUpTo(Bytes, MaxObjLen)}

\* remote_storage::Listing: leaf keys with sizes, and common prefixes
File(k, n) == [key |-> k, size |-> n]
Listings ==
    {[keys |-> ks, prefixes |-> ps] :
        ks \in {<<>>, <<File("f1", 1)>>, <<File("f1", 1), File("f2", 0)>>,
                <<File("f2", 0), File("f1", 1)>>},
        ps \in {<<>>, <<"d1">>, <<"d1", "d2">>, <<"d2", "d1">>}}
NoListing == [keys |-> <<>>, prefixes |-> <<>>]

\* RemotePath as its components; a path written with a trailing delimiter
\* ends in an empty component.  object_name() is the final component, and
\* there is none when the path is empty or its final component is
FilePath == <<"pgdata", "f">>
DirPaths == {<<>>, <<"pgdata">>, <<"pgdata", "">>, <<"pgdata", "base">>}
Nothing == "-"
object_name(path) ==
    IF Len(path) = 0 \/ path[Len(path)] = "" THEN Nothing ELSE path[Len(path)]

\* Result<_, DownloadError> values.  `json` is used by get_json only.
NoJson == [is |-> "NA", depth |-> 0, leaf |-> "NA"]
JsonNone == [is |-> "None", depth |-> 0, leaf |-> "NA"]
JsonSome(d, l) == [is |-> "Some", depth |-> d, leaf |-> l]
DlOk(b) == [tag |-> "Ok", buf |-> b, json |-> NoJson, err |-> "None", ctx |-> "None"]
DlOkJson(j) == [tag |-> "Ok", buf |-> <<>>, json |-> j, err |-> "None", ctx |-> "None"]
DlErr(k, c) == [tag |-> "Err", buf |-> <<>>, json |-> NoJson, err |-> k, ctx |-> c]
DlNone == [tag |-> "None", buf |-> <<>>, json |-> NoJson, err |-> "None", ctx |-> "None"]

\* a classification under which every failure is final
is_permanent_always(r) == r.tag = "Err"

\* DownloadError classification used by the retry driver: everything but a
\* transient failure is terminal
is_permanent(r) == r.tag = "Err" /\ r.err # "Transient"

\* The bytes a backend streams for Included(s)..Excluded(e) of an object
ByteRange(bytes, s, en) == SubSeq(bytes, s + 1, Min(en, Len(bytes)))

\* Failures any backend request can end with; Cancelled needs the token set
StoreFailures(c) ==
    {DlErr("Transient", "backend"), DlErr("Other", "backend")}
        \cup (IF c THEN {DlErr("Cancelled", "backend")} ELSE {})

\* GenericRemoteStorage::download followed by draining the stream
Download(obj, s, en, c) ==
    StoreFailures(c)
        \cup (IF obj.present THEN {DlOk(ByteRange(obj.bytes, s, en))}
              ELSE {DlErr("NotFound", "backend")})

\* GenericRemoteStorage::list(Some(&path), WithDelimiter, None, cancel)
List(l, c) == StoreFailures(c) \cup {[ok |-> TRUE, listing |-> l]}

\* importbucket_client.rs:104-108
KeysWithSize(l) == [i \in 1..Len(l.keys) |-> <<l.keys[i].key, l.keys[i].size>>]
\* a chain in the other order
PrefixesThenKeys(l) == l.prefixes \o [i \in 1..Len(l.keys) |-> l.keys[i].key]

\* importbucket_client.rs:137-142
KeysThenPrefixes(l) == [i \in 1..Len(l.keys) |-> l.keys[i].key] \o l.prefixes

\* The closure handed to download_retry_forever by each method
OpOutcomes(cl, obj, l, c) ==
    CASE cl.name \in {"get", "get_json"} ->
            Download(obj, 0, Len(obj.bytes), c)
      [] cl.name = "get_range" ->
            Download(obj, cl.s, cl.en, c)
      [] cl.name = "listfilesindir" ->
            {IF "ok" \in DOMAIN o THEN DlOk(KeysWithSize(o.listing)) ELSE o :
                o \in List(l, c)}
      [] cl.name = "listdir" ->
            {IF "ok" \in DOMAIN o THEN DlOk(KeysThenPrefixes(o.listing)) ELSE o :
                o \in List(l, c)}

\* serde_json::from_slice on the documents  0 | [] | [ value ]
RECURSIVE ParseValue(_)
ParseValue(b) ==
    IF b = <<>> THEN [ok |-> FALSE, depth |-> 0, leaf |-> "NA", rest |-> <<>>]
    ELSE IF Head(b) = "0" THEN [ok |-> TRUE, depth |-> 0, leaf |-> "num", rest |-> Tail(b)]
    ELSE IF Head(b) = "[" THEN
        IF Len(b) >= 2 /\ b[2] = "]"
        THEN [ok |-> TRUE, depth |-> 1, leaf |-> "empty", rest |-> Tail(Tail(b))]
        ELSE LET inner == ParseValue(Tail(b))
             IN  IF inner.ok /\ inner.rest # <<>> /\ Head(inner.rest) = "]"
                 THEN [ok |-> TRUE, depth |-> inner.depth + 1, leaf |-> inner.leaf,
                       rest |-> Tail(inner.rest)]
                 ELSE [ok |-> FALSE, depth |-> 0, leaf |-> "NA", rest |-> <<>>]
    ELSE [ok |-> FALSE, depth |-> 0, leaf |-> "NA", rest |-> <<>>]

from_slice(b) ==
    LET p == ParseValue(b)
    IN  IF p.ok /\ p.rest = <<>> THEN [ok |-> TRUE, val |-> JsonSome(p.depth, p.leaf)]
        ELSE [ok |-> FALSE, val |-> NoJson]

\* a get_json that reports a malformed document as absent
get_json_lenient(r) ==
    IF r.tag = "Ok"
    THEN IF from_slice(r.buf).ok THEN DlOkJson(from_slice(r.buf).val)
         ELSE DlOkJson(JsonNone)
    ELSE IF r.err = "NotFound" THEN DlOkJson(JsonNone) ELSE r

\* importbucket_client.rs:182-191, applied to the result of self.get(path)
get_json(r) ==
    IF r.tag = "Ok"
    THEN IF from_slice(r.buf).ok THEN DlOkJson(from_slice(r.buf).val)
         ELSE DlErr("Other", "serialize")
    ELSE IF r.err = "NotFound" THEN DlOkJson(JsonNone) ELSE r

\* what the method returns once download_retry_forever has returned r
Returned(cl, r) == IF cl.name = "get_json" THEN get_json(r) ELSE r

\* a subtraction that yields 0 instead of failing
saturating_sub(a, b) == IF a >= b THEN a - b ELSE 0

\* u64::checked_sub, importbucket_client.rs:201-203
checked_sub(a, b) == IF a >= b THEN a - b ELSE -1

Call(n, p, s, en) == [name |-> n, path |-> p, s |-> s, en |-> en]
NoCall == Call("none", <<>>, 0, 0)

OsInit ==
    /\ osPc = "idle"
    /\ call = NoCall
    /\ object = Absent
    /\ listing = NoListing
    /\ cancel = FALSE
    /\ attempts = 0
    /\ failures = 0
    /\ lastOut = DlNone
    /\ res = DlNone
    /\ osRet = DlNone
    /\ cancelAtStart = FALSE

\* a method is entered: the store content it will meet, fresh bookkeeping
Enter(cl, obj, l, pc) ==
    /\ osPc = "idle"
    /\ osPc' = pc
    /\ call' = cl
    /\ object' = obj
    /\ listing' = l
    /\ attempts' = 0
    /\ failures' = 0
    /\ lastOut' = DlNone
    /\ res' = DlNone
    /\ osRet' = DlNone
    /\ cancelAtStart' = cancel
    /\ UNCHANGED <<cancel, kvVars, cfVars>>

\* importbucket_client.rs:153-154
CallGet == \E obj \in Objects : Enter(Call("get", FilePath, 0, 0), obj, NoListing, "check")

\* importbucket_client.rs:178-182
CallGetJson == \E obj \in Objects : Enter(Call("get_json", FilePath, 0, 0), obj, NoListing, "check")

\* importbucket_client.rs:195-205: checked_sub(..).unwrap() precedes the loop
CallGetRange ==
    \E obj \in Objects, s \in 0..MaxOff, en \in 0..MaxOff :
        Enter(Call("get_range", FilePath, s, en), obj, NoListing,
              IF checked_sub(en, s) = -1 THEN "panicked" ELSE "check")

\* importbucket_client.rs:83-93: assert!(path.object_name().is_some())
CallListfilesindir ==
    \E l \in Listings, p \in DirPaths :
        Enter(Call("listfilesindir", p, 0, 0), Absent, l,
              IF object_name(p) = Nothing THEN "panicked" ELSE "check")

\* a listdir that lists whatever path it is given
CallListdirNoAssert ==
    \E l \in Listings, p \in DirPaths :
        Enter(Call("listdir", p, 0, 0), Absent, l, "check")

\* importbucket_client.rs:119-126: assert!(path.object_name().is_some())
CallListdir ==
    \E l \in Listings, p \in DirPaths :
        Enter(Call("listdir", p, 0, 0), Absent, l,
              IF object_name(p) = Nothing THEN "panicked" ELSE "check")

\* CancellationToken::cancel(), by whoever owns the import
Cancel ==
    /\ cancel = FALSE
    /\ cancel' = TRUE
    /\ UNCHANGED <<osPc, call, object, listing, attempts, failures, lastOut,
                   res, osRet, cancelAtStart, kvVars, cfVars>>

\* download_retry_forever returns r, and with it the method
Finish(r) ==
    /\ res' = r
    /\ osRet' = Returned(call, r)
    /\ osPc' = "done"

\* a driver that polls the token only once an attempt has failed
RetryCheckAfterFailureOnly ==
    /\ osPc = "check"
    /\ IF cancel /\ attempts > 0
       THEN Finish(DlErr("Cancelled", "retry"))
       ELSE /\ osPc' = "op"
            /\ UNCHANGED <<res, osRet>>
    /\ UNCHANGED <<call, object, listing, cancel, attempts, failures, lastOut,
                   cancelAtStart, kvVars, cfVars>>

\* a driver that does not poll the token
RetryCheckIgnoresCancel ==
    /\ osPc = "check"
    /\ osPc' = "op"
    /\ UNCHANGED <<res, osRet>>
    /\ UNCHANGED <<call, object, listing, cancel, attempts, failures, lastOut,
                   cancelAtStart, kvVars, cfVars>>

\* download_retry_forever: the token is polled before every attempt
RetryCheck ==
    /\ osPc = "check"
    /\ IF cancel
       THEN Finish(DlErr("Cancelled", "retry"))
       ELSE /\ osPc' = "op"
            /\ UNCHANGED <<res, osRet>>
    /\ UNCHANGED <<call, object, listing, cancel, attempts, failures, lastOut,
                   cancelAtStart, kvVars, cfVars>>

\* a driver that gives up at its second transient failure
AttemptWithCeiling ==
    /\ osPc = "op"
    /\ \E out \in OpOutcomes(call, object, listing, cancel) :
          /\ lastOut' = out
          /\ attempts' = Bump(attempts)
          /\ failures' = IF out.tag = "Err" /\ out.err = "Transient"
                         THEN Bump(failures) ELSE failures
          /\ IF out.tag = "Err" /\ ~is_permanent(out) /\ failures < 1
             THEN /\ osPc' = "backoff"
                  /\ UNCHANGED <<res, osRet>>
             ELSE Finish(out)
    /\ UNCHANGED <<call, object, listing, cancel, cancelAtStart, kvVars, cfVars>>

\* a driver that retries whatever the failure is
AttemptRetriesTerminal ==
    /\ osPc = "op"
    /\ \E out \in OpOutcomes(call, object, listing, cancel) :
          /\ lastOut' = out
          /\ attempts' = Bump(attempts)
          /\ failures' = IF out.tag = "Err" /\ out.err = "Transient"
                         THEN Bump(failures) ELSE failures
          /\ IF out.tag = "Err"
             THEN /\ osPc' = "backoff"
                  /\ UNCHANGED <<res, osRet>>
             ELSE Finish(out)
    /\ UNCHANGED <<call, object, listing, cancel, cancelAtStart, kvVars, cfVars>>

\* download_retry_forever: one invocation of the wrapped operation;
\* success and terminal failures are returned, transient ones retried
Attempt ==
    /\ osPc = "op"
    /\ \E out \in OpOutcomes(call, object, listing, cancel) :
          /\ lastOut' = out
          /\ attempts' = Bump(attempts)
          /\ failures' = IF out.tag = "Err" /\ out.err = "Transient"
                         THEN Bump(failures) ELSE failures
          /\ IF out.tag = "Err" /\ ~is_permanent(out)
             THEN /\ osPc' = "backoff"
                  /\ UNCHANGED <<res, osRet>>
             ELSE Finish(out)
    /\ UNCHANGED <<call, object, listing, cancel, cancelAtStart, kvVars, cfVars>>

\* download_retry_forever: the inter-retry wait, which ends when its time
\* is up or as soon as the token is set; the token is polled next
Backoff ==
    /\ osPc = "backoff"
    /\ osPc' = "check"
    /\ UNCHANGED <<call, object, listing, cancel, attempts, failures, lastOut,
                   res, osRet, cancelAtStart, kvVars, cfVars>>

\* the caller takes the result (or the panic has unwound); nothing of the
\* call is kept by the facade, only the token outlives it
OsReturn ==
    /\ osPc \in {"done", "panicked"}
    /\ osPc' = "idle"
    /\ call' = NoCall
    /\ object' = Absent
    /\ listing' = NoListing
    /\ attempts' = 0
    /\ failures' = 0
    /\ lastOut' = DlNone
    /\ res' = DlNone
    /\ osRet' = DlNone
    /\ cancelAtStart' = FALSE
    /\ UNCHANGED <<cancel, kvVars, cfVars>>

OsNext ==
    \/ CallGet
    \/ CallGetJson
    \/ CallGetRange
    \/ CallListfilesindir
    \/ CallListdir
    \/ Cancel
    \/ RetryCheck
    \/ Attempt
    \/ Backoff
    \/ OsReturn

\* ======================================================================
\*  Control file
\*  (importbucket_client.rs:248-290)
\* ======================================================================

\* catalog versions of catversion.h listed by try_pg_version
CATVER_PG14 == 202107181
CATVER_PG15 == 202209061
CATVER_PG16 == 202307071
CATVER_PG17 == 202406281

\* catalog versions found in the control files handed to ControlFile::new
CatalogVersions ==
    {CATVER_PG14, CATVER_PG15, CATVER_PG16, CATVER_PG17,
     0, CATVER_PG14 - 1, CATVER_PG14 + 1, CATVER_PG16 + 10, CATVER_PG17 + 1}

\* a control file buffer as its fields in layout order: the catalog
\* version, then the checkpoint position; shorter buffers are truncated files
Buffers ==
    {<<>>}
        \cup {<<v>> : v \in CatalogVersions}
        \cup {<<v, c>> : v \in CatalogVersions, c \in 0..MaxLsn}

\* outcome of a ControlFile operation, with the buffer a constructor was given
CfOk(op, arg, v) == [op |-> op, arg |-> arg, tag |-> "Ok", val |-> v, why |-> "None"]
CfErr(op, arg, k) == [op |-> op, arg |-> arg, tag |-> "Err", val |-> 0, why |-> k]
CfPanic(op) == [op |-> op, arg |-> <<>>, tag |-> "Panic", val |-> 0, why |-> "expect"]
CfNone == [op |-> "none", arg |-> <<>>, tag |-> "None", val |-> 0, why |-> "None"]

NoControlFile == [exists |-> FALSE, catalog_version_no |-> 0, checkPoint |-> 0]
ControlFileOf(d) ==
    [exists |-> TRUE, catalog_version_no |-> d.catalog_version_no,
     checkPoint |-> d.checkPoint]

\* ControlFileData::decode: reads the fixed layout, fails on a short buffer
decode(buf) ==
    IF Len(buf) < 2 THEN [ok |-> FALSE, catalog_version_no |-> 0, checkPoint |-> 0]
    ELSE [ok |-> TRUE, catalog_version_no |-> buf[1], checkPoint |-> buf[2]]

\* a version table whose fallback arm guesses the newest version
try_pg_version_defaulting(cv) ==
    CASE cv = CATVER_PG14 -> [tag |-> "Ok", val |-> 14]
      [] cv = CATVER_PG15 -> [tag |-> "Ok", val |-> 15]
      [] cv = CATVER_PG16 -> [tag |-> "Ok", val |-> 16]
      [] OTHER -> [tag |-> "Ok", val |-> 17]

\* importbucket_client.rs:278-289
try_pg_version(cv) ==
    CASE cv = CATVER_PG14 -> [tag |-> "Ok", val |-> 14]
      [] cv = CATVER_PG15 -> [tag |-> "Ok", val |-> 15]
      [] cv = CATVER_PG16 -> [tag |-> "Ok", val |-> 16]
      [] cv = CATVER_PG17 -> [tag |-> "Ok", val |-> 17]
      [] OTHER -> [tag |-> "Err", val |-> 0]

\* Lsn::align: the position rounded down to a multiple of the unit
AlignUnit == 8
align(lsn) == lsn - (lsn % AlignUnit)

\* a base position that is the raw checkpoint
base_lsn_raw(cf) == cf.checkPoint

\* importbucket_client.rs:264-266
base_lsn(cf) == align(cf.checkPoint)

CfInit ==
    /\ controlFile = NoControlFile
    /\ cfRet = CfNone

\* a constructor that skips the version check
ControlFileNewUnchecked ==
    /\ \E buf \in Buffers :
          IF ~decode(buf).ok
          THEN /\ cfRet' = CfErr("new", buf, "decode")
               /\ controlFile' = NoControlFile
          ELSE /\ cfRet' = CfOk("new", buf, 0)
               /\ controlFile' = ControlFileOf(decode(buf))
    /\ UNCHANGED <<kvVars, osVars>>

\* importbucket_client.rs:254-263: ControlFile::new; a failed construction
\* leaves the import without a ControlFile
ControlFileNew ==
    /\ \E buf \in Buffers :
          IF ~decode(buf).ok
          THEN /\ cfRet' = CfErr("new", buf, "decode")
               /\ controlFile' = NoControlFile
          ELSE IF try_pg_version(decode(buf).catalog_version_no).tag = "Err"
          THEN /\ cfRet' = CfErr("new", buf, "unrecognized catalog version")
               /\ controlFile' = NoControlFile
          ELSE /\ cfRet' = CfOk("new", buf, 0)
               /\ controlFile' = ControlFileOf(decode(buf))
    /\ UNCHANGED <<kvVars, osVars>>

\* importbucket_client.rs:267-270: pg_version, whose expect panics on Err
PgVersion ==
    /\ controlFile.exists
    /\ cfRet' = IF try_pg_version(controlFile.catalog_version_no).tag = "Ok"
                THEN CfOk("pg_version", <<>>,
                          try_pg_version(controlFile.catalog_version_no).val)
                ELSE CfPanic("pg_version")
    /\ UNCHANGED <<controlFile, kvVars, osVars>>

\* importbucket_client.rs:264-266: base_lsn called on the held value
BaseLsn ==
    /\ controlFile.exists
    /\ cfRet' = CfOk("base_lsn", <<>>, base_lsn(controlFile))
    /\ UNCHANGED <<controlFile, kvVars, osVars>>

CfNext ==
    \/ ControlFileNew
    \/ PgVersion
    \/ BaseLsn

\* ======================================================================
\*  Specifications
\* ======================================================================

Init == KvInit /\ OsInit /\ CfInit

\* the key-value client
SpecKV == Init /\ [][KvNext]_vars

\* the object-store facade
SpecOS == Init /\ [][OsNext]_vars

\* the control file
SpecCF == Init /\ [][CfNext]_vars

\* the object-store facade under the scheduling of the async runtime: a
\* task that can take its next step eventually takes it
FairSpecOS ==
    SpecOS /\ WF_vars(RetryCheck) /\ WF_vars(Attempt) /\ WF_vars(Backoff)

\* ---------------------------------------------------------------------
\* helpers over the record of one call
Ops(tr) == [i \in 1..Len(tr) |-> tr[i].op]
Count(tr, op) == Cardinality({i \in 1..Len(tr) : tr[i].op = op})

\* C1: a query whose first attempt fails with a Reconnect error, whose
\* connect succeeds and whose retry succeeds performs attempt, connect,
\* attempt (one connect, two executions) and returns the retry's value.
C1_ReconnectThenSuccess ==
    (/\ kvPc = "done"
     /\ kvTrace[1].out.tag = "Err"
     /\ kvTrace[1].out.retry = "Reconnect"
     /\ \A i \in 2..Len(kvTrace) : kvTrace[i].out.tag = "Ok")
    => /\ Ops(kvTrace) = <<"attempt", "connect", "attempt">>
       /\ kvRet = kvTrace[3].out
       /\ kvRet.tag = "Ok"

C1_Witness ==
    /\ kvPc = "done"
    /\ Len(kvTrace) = 3
    /\ kvTrace[1].out = RedisErr(1, "Reconnect")
    /\ kvTrace[2] = Ev("connect", RedisOk(0))
    /\ kvTrace[3].out = RedisOk(2)
    /\ kvRet = RedisOk(2)

\* C2: one call executes the query at most twice; when both executions
\* fail the caller gets the second failure, and the call is over as soon as
\* the second execution has happened.
C2_SingleRetryBound ==
    /\ Count(kvTrace, "attempt") <= 2
    /\ Count(kvTrace, "attempt") = 2
         => /\ kvPc \in {"done", "idle"}
            /\ kvTrace[Len(kvTrace)].op = "attempt"
            /\ kvRet = kvTrace[Len(kvTrace)].out

C2_Witness ==
    /\ kvPc = "done"
    /\ Count(kvTrace, "attempt") = 2
    /\ kvTrace[1].out = RedisErr(1, "WaitAndRetry")
    /\ kvTrace[Len(kvTrace)].out = RedisErr(2, "Reconnect")
    /\ kvRet = RedisErr(2, "Reconnect")

\* ---------------------------------------------------------------------
\* helpers over the record of one facade call
RetryOps == {"get", "get_range", "listdir", "listfilesindir"}
Finished == osPc = "done"
IsErr(r, k) == r.tag = "Err" /\ r.err = k
CancelledByDriver == DlErr("Cancelled", "retry")

\* C3: with cancellation never signalled, a get / get_range / listdir /
\* listfilesindir whose operation has not failed terminally ends in success
\* after exactly failures + 1 invocations, whatever the number of transient
\* failures before it; the transient failures are never the result.
C3_RetryForeverCountsAttempts ==
    (/\ Finished
     /\ call.name \in RetryOps
     /\ ~cancel
     /\ ~(lastOut.tag = "Err" /\ lastOut.err # "Transient"))
    => /\ res.tag = "Ok"
       /\ res = lastOut
       /\ failures < MaxCount => attempts = failures + 1

C3_Witness ==
    /\ Finished
    /\ call.name = "get"
    /\ ~cancel
    /\ failures = 2
    /\ attempts = 3
    /\ res = DlOk(<<"0">>)

\* C4: no facade method ever returns a transient failure; an error it
\* returns is NotFound, Cancelled or a terminal Other (backend or decode).
C4_NoTransientSurfaced ==
    (Finished /\ osRet.tag = "Err")
    => /\ osRet.err \in {"NotFound", "Cancelled", "Other"}
       /\ osRet.err = "NotFound" => call.name # "get_json"

C4_Witness ==
    /\ Finished
    /\ failures >= 1
    /\ call.name = "listdir"
    /\ osRet = DlErr("Other", "backend")

\* C5: a call that starts with the cancellation token already set returns
\* Cancelled without the wrapped operation having produced anything.
C5_CancelledBeforeFirstAttempt ==
    (Finished /\ cancelAtStart)
    => /\ res = CancelledByDriver
       /\ osRet = CancelledByDriver
       /\ attempts = 0
       /\ lastOut = DlNone

C5_Witness ==
    /\ Finished
    /\ cancelAtStart
    /\ call.name = "get"
    /\ object.present
    /\ osRet = CancelledByDriver

\* C6: once the token is set while a retry loop is running, the loop ends;
\* it ends with Cancelled unless the last invocation of the operation did
\* not fail transiently; and the cancellation check that finds the token set
\* returns Cancelled without starting another attempt.
C6_CancelEndsRetryLoop ==
    /\ [][(osPc = "check" /\ cancel)
            => (osPc' = "done" /\ res' = CancelledByDriver /\ attempts' = attempts)]_vars
    /\ (cancel /\ osPc \in {"check", "op", "backoff"})
          ~> (Finished /\ (IsErr(res, "Cancelled") \/ ~IsErr(lastOut, "Transient")))

C6_Witness ==
    /\ Finished
    /\ cancel
    /\ ~cancelAtStart
    /\ failures >= 2
    /\ IsErr(lastOut, "Transient")
    /\ res = CancelledByDriver

\* C7: an attempt that fails with a non-transient error ends the call: the
\* operation is not invoked again and that error is what the driver returns.
C7_TerminalReturnedImmediately ==
    (lastOut.tag = "Err" /\ lastOut.err # "Transient")
    => /\ Finished
       /\ res = lastOut

C7_Witness ==
    /\ Finished
    /\ call.name = "get"
    /\ failures = 1
    /\ attempts = 2
    /\ lastOut = DlErr("NotFound", "backend")
    /\ res = DlErr("NotFound", "backend")

\* the well-formed documents and their values, listed
Documents ==
    {<<<<"0">>, JsonSome(0, "num")>>,
     <<<<"[", "]">>, JsonSome(1, "empty")>>,
     <<<<"[", "0", "]">>, JsonSome(1, "num")>>,
     <<<<"[", "[", "]", "]">>, JsonSome(2, "empty")>>}
WellFormed(b) == \E d \in Documents : d[1] = b
ValueOf(b) == (CHOOSE d \in Documents : d[1] = b)[2]

\* C8: get_json returns Ok(None) exactly for an absent object, Ok(Some(v))
\* with the parsed value for a well-formed one, and the decode failure for a
\* malformed one; absence is never a failure, malformed is never empty.
C8_GetJsonThreeOutcomes ==
    (Finished /\ call.name = "get_json")
    => /\ IsErr(res, "NotFound") => osRet = DlOkJson(JsonNone)
       /\ (res.tag = "Ok" /\ WellFormed(res.buf)) => osRet = DlOkJson(ValueOf(res.buf))
       /\ (res.tag = "Ok" /\ ~WellFormed(res.buf)) => osRet = DlErr("Other", "serialize")
       /\ osRet.json.is = "None" => ~object.present
       /\ osRet.json.is = "Some" => (object.present /\ WellFormed(object.bytes))
       /\ osRet.ctx = "serialize" => (object.present /\ ~WellFormed(object.bytes))
       /\ ~IsErr(osRet, "NotFound")

C8_Witness ==
    /\ Finished
    /\ call.name = "get_json"
    /\ object.present
    /\ object.bytes = <<"[", "0">>
    /\ osRet = DlErr("Other", "serialize")

\* C9: a successful get_range on an object of at least `en` bytes returns
\* the en - s bytes from offset s; with s > en the call panics before the
\* operation is invoked at all.
C9_GetRangeExactLength ==
    call.name = "get_range"
    => /\ (Finished /\ osRet.tag = "Ok" /\ object.present
              /\ Len(object.bytes) >= call.en)
          => /\ Len(osRet.buf) = call.en - call.s
             /\ \A i \in 1..(call.en - call.s) : osRet.buf[i] = object.bytes[call.s + i]
       /\ call.s > call.en
          => /\ osPc = "panicked"
             /\ attempts = 0
             /\ osRet = DlNone

C9_Witness ==
    /\ Finished
    /\ call = Call("get_range", FilePath, 1, 2)
    /\ object.bytes = <<"[", "0">>
    /\ osRet = DlOk(<<"0">>)

\* C10: get_range on an object that has fewer bytes than `en` fails.
C10_ShortObjectFails ==
    (/\ Finished
     /\ call.name = "get_range"
     /\ object.present
     /\ Len(object.bytes) < call.en)
    => osRet.tag = "Err"

\* ---------------------------------------------------------------------
\* the table of spec 4.3, listed
VersionTable ==
    {<<202107181, 14>>, <<202209061, 15>>, <<202307071, 16>>, <<202406281, 17>>}
Recognized(cv) == \E t \in VersionTable : t[1] = cv
MajorOf(cv) == (CHOOSE t \in VersionTable : t[1] = cv)[2]

\* C11: ControlFile::new succeeds exactly for the 4 catalog versions of the
\* table, and the value it produces then reports the table's major version;
\* for any other catalog version it fails and no ControlFile exists.
C11_NewAcceptsExactlyTheTable ==
    (cfRet.op = "new" /\ Len(cfRet.arg) = 2)
    => /\ Recognized(cfRet.arg[1])
          => /\ cfRet.tag = "Ok"
             /\ controlFile.exists
             /\ controlFile.catalog_version_no = cfRet.arg[1]
             /\ try_pg_version(controlFile.catalog_version_no)
                   = [tag |-> "Ok", val |-> MajorOf(cfRet.arg[1])]
       /\ ~Recognized(cfRet.arg[1])
          => /\ cfRet.tag = "Err"
             /\ cfRet.why = "unrecognized catalog version"
             /\ ~controlFile.exists

C11_Witness ==
    /\ cfRet = CfOk("new", <<202307071, 9>>, 0)
    /\ controlFile.exists
    /\ controlFile.catalog_version_no = 202307071
    /\ try_pg_version(controlFile.catalog_version_no).val = 16

\* C12: a ControlFile that exists holds a catalog version of the table, and
\* every pg_version call on it returns that version's major version without
\* panicking.
C12_PgVersionInfallible ==
    controlFile.exists
    => /\ Recognized(controlFile.catalog_version_no)
       /\ cfRet.op = "pg_version"
          => cfRet = CfOk("pg_version", <<>>, MajorOf(controlFile.catalog_version_no))
       /\ cfRet.tag # "Panic"

C12_Witness ==
    /\ controlFile.exists
    /\ controlFile.catalog_version_no = 202209061
    /\ cfRet = CfOk("pg_version", <<>>, 15)

\* C16: the base position is the checkpoint aligned down: a multiple of the
\* alignment unit, not above the checkpoint, and less than one unit below it.
C16_BaseLsnAlignedDown ==
    cfRet.op = "base_lsn"
    => /\ cfRet.val % AlignUnit = 0
       /\ cfRet.val <= controlFile.checkPoint
       /\ controlFile.checkPoint - cfRet.val < AlignUnit

C16_Witness ==
    /\ cfRet = CfOk("base_lsn", <<>>, 8)
    /\ controlFile.exists
    /\ controlFile.checkPoint = 13

\* C13: listdir and listfilesindir given a path whose final component is
\* empty (or that has no component) panic on their assert: the retry loop is
\* not entered and no list request is issued.
C13_ListingRejectsEmptyFinalComponent ==
    (/\ call.name \in {"listdir", "listfilesindir"}
     /\ (call.path = <<>> \/ call.path[Len(call.path)] = ""))
    => /\ osPc = "panicked"
       /\ attempts = 0
       /\ lastOut = DlNone
       /\ osRet = DlNone

C13_Witness ==
    /\ osPc = "panicked"
    /\ call.name = "listfilesindir"
    /\ call.path = <<"pgdata", "">>
    /\ attempts = 0

\* ---------------------------------------------------------------------
FirstFailedWith(tr, ms) ==
    /\ Len(tr) >= 1
    /\ tr[1].out.tag = "Err"
    /\ tr[1].out.retry \in ms
Retried == {"Reconnect", "RetryImmediately", "WaitAndRetry"}

\* C14: when the first attempt fails with Reconnect and the connect that
\* follows fails, the call ends there: the connect failure is the result and
\* the query is not executed again.
C14_FailedReconnectSurfaced ==
    (/\ FirstFailedWith(kvTrace, {"Reconnect"})
     /\ Len(kvTrace) >= 2
     /\ kvTrace[2] = Ev("connect", ConnectErr))
    => /\ Len(kvTrace) = 2
       /\ kvPc \in {"done", "idle"}
       /\ kvRet = ConnectErr
       /\ Count(kvTrace, "attempt") = 1

C14_Witness ==
    /\ kvPc = "done"
    /\ kvTrace = <<Ev("attempt", RedisErr(2, "Reconnect")), Ev("connect", ConnectErr)>>
    /\ kvRet = ConnectErr

\* C15: a first failure that is none of Reconnect, RetryImmediately and
\* WaitAndRetry is returned as it is: nothing follows the first attempt, no
\* second execution, no connect, no sleep.
C15_FatalPropagated ==
    (/\ Len(kvTrace) >= 1
     /\ kvTrace[1].out.tag = "Err"
     /\ kvTrace[1].out.retry \notin Retried)
    => /\ Len(kvTrace) = 1
       /\ kvPc \in {"classify", "done", "idle"}
       /\ kvPc \in {"done", "idle"} => kvRet = kvTrace[1].out

C15_Witness ==
    /\ kvPc = "done"
    /\ kvTrace = <<Ev("attempt", RedisErr(1, "MovedRedirect"))>>
    /\ kvRet = RedisErr(1, "MovedRedirect")

\* C17: a new client is Disconnected; the connection state changes only in
\* a connect (the owner's try_connect or the Reconnect arm); and a call whose
\* first attempt succeeded or failed with anything but Reconnect performs no
\* connect and leaves the connection state alone.
C17_ConnectionStateFrame ==
    /\ client = "Disconnected"
    /\ [][/\ client' # client
               => (kvPc = "connect" \/ (kvPc = "idle" /\ kvPc' = "idle"))
          /\ (/\ kvPc' # "idle"
              /\ Len(kvTrace') >= 1
              /\ ~FirstFailedWith(kvTrace', {"Reconnect"}))
               => (client' = client /\ Count(kvTrace', "connect") = 0)]_vars

C17_Witness ==
    /\ kvPc = "done"
    /\ client = "Disconnected"
    /\ Len(kvTrace) = 3
    /\ kvTrace[1].out = RedisErr(1, "WaitAndRetry")
    /\ Count(kvTrace, "connect") = 0
    /\ kvRet.tag = "Err"

\* C18: after a first failure classified RetryImmediately the query is
\* executed once more at once, after one classified WaitAndRetry once more
\* after one sleep; in both cases the second outcome is the call's result.
C18_RetryOnceWithOrWithoutWait ==
    kvPc = "done"
    => /\ FirstFailedWith(kvTrace, {"RetryImmediately"})
          => /\ Ops(kvTrace) = <<"attempt", "attempt">>
             /\ kvRet = kvTrace[2].out
       /\ FirstFailedWith(kvTrace, {"WaitAndRetry"})
          => /\ Ops(kvTrace) = <<"attempt", "sleep", "attempt">>
             /\ kvRet = kvTrace[3].out

C18_Witness ==
    /\ kvPc = "done"
    /\ kvTrace[1].out = RedisErr(1, "WaitAndRetry")
    /\ Ops(kvTrace) = <<"attempt", "sleep", "attempt">>
    /\ kvRet = RedisOk(2)

\* C19: whatever the earlier calls ended with, a call performs at most one
\* connect and at most two executions; a failed second execution ends the
\* call with that failure, it is not classified and no connect follows it;
\* and what the call returns is the outcome of the last thing it did, so a
\* failing call reports exactly that one failure.
C19_NoEscalationAcrossCalls ==
    /\ Count(kvTrace, "connect") <= 1
    /\ Count(kvTrace, "attempt") <= 2
    /\ \A i \in 2..Len(kvTrace) :
          (kvTrace[i].op = "attempt" /\ kvTrace[i].out.tag = "Err")
          => /\ i = Len(kvTrace)
             /\ kvPc \in {"done", "idle"}
             /\ kvRet = kvTrace[i].out
    /\ kvPc = "done" => kvRet = kvTrace[Len(kvTrace)].out

C19_Witness ==
    /\ kvPc = "done"
    /\ kvHistory = <<"Err", "Err">>
    /\ Ops(kvTrace) = <<"attempt", "connect", "attempt">>
    /\ kvTrace[1].out = RedisErr(1, "Reconnect")
    /\ kvTrace[3].out = RedisErr(2, "Reconnect")
    /\ kvRet = RedisErr(2, "Reconnect")

\* C20: from one successful backend listing, listfilesindir returns the
\* leaf entries as (path, size) in the backend's order and no common prefix;
\* listdir returns the leaf paths in that order, then the common prefixes in
\* the backend's order.
C20_ListingShape ==
    (Finished /\ res.tag = "Ok")
    => /\ call.name = "listfilesindir"
          => /\ osRet.tag = "Ok"
             /\ Len(osRet.buf) = Len(listing.keys)
             /\ \A i \in 1..Len(listing.keys) :
                   osRet.buf[i] = <<listing.keys[i].key, listing.keys[i].size>>
       /\ call.name = "listdir"
          => /\ osRet.tag = "Ok"
             /\ Len(osRet.buf) = Len(listing.keys) + Len(listing.prefixes)
             /\ \A i \in 1..Len(listing.keys) : osRet.buf[i] = listing.keys[i].key
             /\ \A j \in 1..Len(listing.prefixes) :
                   osRet.buf[Len(listing.keys) + j] = listing.prefixes[j]

C20_Witness ==
    /\ Finished
    /\ call.name = "listdir"
    /\ listing = [keys |-> <<File("f2", 0), File("f1", 1)>>, prefixes |-> <<"d2", "d1">>]
    /\ osRet = DlOk(<<"f2", "f1", "d2", "d1">>)

====
